---- MODULE Spec2Model ----
(***************************************************************************)
(* Model of the retriever tool (utils/agents/vector_search.py) and of the  *)
(* deployment notebook's wait loop (03_deploy_poc_to_review_app.py).       *)
(*                                                                         *)
(* Python values are modelled as follows.  None is the string NoneVal.     *)
(* Floats (thresholds, similarity scores) are integers counting tenths.    *)
(* An exception leaving a function is a record err with err.type the       *)
(* exception class; NoError means the function returned normally.          *)
(***************************************************************************)
EXTENDS Integers, Sequences, FiniteSets, TLC

VARIABLES
    schema,            \* the caller's VectorSearchSchema object (shared by reference)
    tool,              \* the VectorSearchRetrieverTool instance produced last
    retriever_schema,  \* what mlflow.models.set_retriever_schema registered
    last,              \* the last construction / property read: its inputs and outcome
    filters,           \* the caller's filter list, as the last parse_filters call left it
    parsed,            \* the last parse_filters call: its input and its result
    remembered,        \* some earlier parse_filters call (history, for comparison)
    vs_results,        \* the query_index response handed to the conversion
    converted,         \* the last convert_vector_search_to_documents call's result
    pc,                \* the notebook's position in the deployment cells
    calls,             \* the platform calls the notebook has made, in order
    registered_version,\* uc_registered_model_info.version (0: not registered)
    deployed_version,  \* the model_version agents.deploy was called with (0: not called)
    endpoint,          \* the serving endpoint's state on the platform
    ready_read,        \* state.ready as read by the current check of the loop
    config_update_read,\* state.config_update as read by the current check
    last_sleep,        \* seconds of the last time.sleep (0: none yet)
    polls,             \* completed sleeps, counted up to MaxPolls
    good_seen          \* history: the endpoint was ready and not updating at some
                       \* moment of the current check, from its first read on

toolVars == <<schema, tool, retriever_schema, last>>
parseVars == <<filters, parsed, remembered>>
convertVars == <<vs_results, converted>>
waitVars == <<pc, calls, registered_version, deployed_version, endpoint, ready_read,
              config_update_read, last_sleep, polls, good_seen>>
vars == <<schema, tool, retriever_schema, last, filters, parsed, remembered,
          vs_results, converted, pc, calls, registered_version, deployed_version,
          endpoint, ready_read, config_update_read, last_sleep, polls, good_seen>>

NoneVal == "<None>"

----------------------------------------------------------------------------
(* Exceptions *)

NoError == [type |-> "none", msg |-> "", column |-> "", context |-> ""]

ValueError(msg) == [type |-> "ValueError", msg |-> msg, column |-> "", context |-> ""]

\* f"Column '{col}' specified in {context} not found in source table ..."
ColumnError(col, context) ==
    [type |-> "ValueError", msg |-> "not found in source table",
     column |-> col, context |-> context]

\* an exception of the SDK that the code does not catch
Propagated(type) == [type |-> type, msg |-> "", column |-> "", context |-> ""]

----------------------------------------------------------------------------
(* The remote platform, as the construction sees it *)

Cols == {"id", "text", "uri", "extra"}

\* w.vector_search_indexes.get_index(...): an IndexInfo, or an exception
IndexInfo(type, pk) == [status |-> "ok", index_type |-> type, primary_key |-> pk]
IndexRaises(e) == [status |-> e, index_type |-> "", primary_key |-> NoneVal]
NotCalled == [status |-> "not called", index_type |-> "", primary_key |-> NoneVal]

\* the column sets w.tables.get(source_table) may report
TableColumnSets ==
    { Cols, Cols \ {"text"}, Cols \ {"uri", "extra"}, Cols \ {"id", "extra"} }

\* What the platform answers to the calls one construction makes.  A call that
\* is never reached has no answer (NotCalled, {}).
Envs ==
    { [g1 |-> IndexRaises(e), g2 |-> NotCalled, table_columns |-> {}] :
        e \in {"OtherError", "ResourceDoesNotExist"} }
    \cup
    { [g1 |-> IndexInfo("DELTA_SYNC", "id"), g2 |-> IndexRaises(e), table_columns |-> {}] :
        e \in {"OtherError", "ResourceDoesNotExist"} }
    \cup
    { [g1 |-> IndexInfo("DELTA_SYNC", "id"), g2 |-> IndexInfo("DIRECT_ACCESS", "id"),
       table_columns |-> {}] }
    \cup
    { [g1 |-> IndexInfo("DELTA_SYNC", "id"), g2 |-> IndexInfo("DELTA_SYNC", pk),
       table_columns |-> tc] : pk \in {NoneVal, "id"}, tc \in TableColumnSets }
    \cup
    { [g1 |-> IndexInfo("DELTA_SYNC", "id"), g2 |-> IndexInfo("DELTA_SYNC", "text"),
       table_columns |-> Cols] }

----------------------------------------------------------------------------
(* VectorSearchSchema *)

SchemaConfig(c, a) ==
    [_primary_key |-> NoneVal, chunk_text |-> c, document_uri |-> "uri",
     additional_metadata_columns |-> a]

SchemaConfigs ==
    { SchemaConfig("text", <<>>), SchemaConfig("text", <<"extra", "id">>),
      SchemaConfig("id", <<"text">>) }

\* the primary_key property
primary_key(s) ==
    IF s._primary_key = NoneVal
    THEN [err |-> ValueError("primary_key must be set by VectorSearchRetrieverConfig"),
          value |-> NoneVal]
    ELSE [err |-> NoError, value |-> s._primary_key]

----------------------------------------------------------------------------
(* VectorSearchRetrieverTool: construction *)

_validate_columns_exist(columns, table_columns, context) ==
    LET RECURSIVE walk(_, _)
        walk(i, checked) ==
            IF i > Len(columns)
            THEN [checked |-> checked, err |-> NoError]
            ELSE IF columns[i] \notin table_columns
                 THEN [checked |-> Append(checked, <<columns[i], context>>),
                       err |-> ColumnError(columns[i], context)]
                 ELSE walk(i + 1, Append(checked, <<columns[i], context>>))
    IN  walk(1, <<>>)

\* returns whether the index exists; a lookup error other than
\* ResourceDoesNotExist leaves the function
_check_if_index_exists(g1) ==
    IF g1.status = "ok" THEN [err |-> NoError, ret |-> TRUE]
    ELSE IF g1.status = "ResourceDoesNotExist" THEN [err |-> NoError, ret |-> FALSE]
    ELSE [err |-> Propagated(g1.status), ret |-> FALSE]

\* the second get_index, the index type check, then tables.get
_get_index_and_table_info(g2, tc) ==
    IF g2.status # "ok"
    THEN [err |-> Propagated(g2.status), table_lookups |-> 0, table_columns |-> {}]
    ELSE IF g2.index_type # "DELTA_SYNC"
    THEN [err |-> ValueError("Unsupported index type"), table_lookups |-> 0,
          table_columns |-> {}]
    ELSE [err |-> NoError, table_lookups |-> 1, table_columns |-> tc]

\* Python truthiness of an optional string
Falsy(x) == x = NoneVal \/ x = ""

columns_to_validate_uri_first(s) ==
    << <<s.document_uri, "document_uri">>, <<s.chunk_text, "chunk_text">> >>
    \o [i \in 1..Len(s.additional_metadata_columns) |->
            <<s.additional_metadata_columns[i], "additional_metadata_columns">>]

\* the (column, context) pairs validated after the primary key step
columns_to_validate(s) ==
    << <<s.chunk_text, "chunk_text">>, <<s.document_uri, "document_uri">> >>
    \o [i \in 1..Len(s.additional_metadata_columns) |->
            <<s.additional_metadata_columns[i], "additional_metadata_columns">>]

\* the loop over columns_to_validate: one _validate_columns_exist call per pair
validate_schema_columns(pairs, table_columns) ==
    LET RECURSIVE walk(_, _)
        walk(i, checked) ==
            IF i > Len(pairs)
            THEN [checked |-> checked, err |-> NoError]
            ELSE LET r == _validate_columns_exist(<<pairs[i][1]>>, table_columns, pairs[i][2])
                 IN  IF r.err # NoError
                     THEN [checked |-> checked \o r.checked, err |-> r.err]
                     ELSE walk(i + 1, checked \o r.checked)
    IN  walk(1, <<>>)

\* "Set primary key from index if not already set": the key the schema holds
\* afterwards, or the exception
set_primary_key_always(current, index_primary_key) ==
    IF ~Falsy(index_primary_key)
    THEN [err |-> NoError, _primary_key |-> index_primary_key]
    ELSE [err |-> ValueError("Could not find primary key in index"),
          _primary_key |-> current]

set_primary_key(current, index_primary_key) ==
    IF ~Falsy(current) THEN [err |-> NoError, _primary_key |-> current]
    ELSE IF ~Falsy(index_primary_key)
    THEN [err |-> NoError, _primary_key |-> index_primary_key]
    ELSE [err |-> ValueError("Could not find primary key in index"),
          _primary_key |-> current]

\* The "after" validator.  s is the schema object the tool refers to; the result
\* holds the exception (or NoError), the schema's _primary_key as the validator
\* leaves it, the columns it compared with the table, and the remote calls made.
validate_index_and_columns(s, filterable_columns, env) ==
    LET ex   == _check_if_index_exists(env.g1)
        info == _get_index_and_table_info(env.g2, env.table_columns)
        fc   == _validate_columns_exist(filterable_columns, info.table_columns,
                                        "filterable_columns")
        pk   == set_primary_key(s._primary_key, env.g2.primary_key)
        sc   == validate_schema_columns(columns_to_validate(s), info.table_columns)
        out(err, key, checked, il, tl) ==
            [err |-> err, _primary_key |-> key, checked |-> checked,
             index_lookups |-> il, table_lookups |-> tl]
    IN  IF ex.err # NoError THEN out(ex.err, s._primary_key, <<>>, 1, 0)
        ELSE IF ~ex.ret
        THEN out(ValueError("does not exist"), s._primary_key, <<>>, 1, 0)
        ELSE IF info.err # NoError
        THEN out(info.err, s._primary_key, <<>>, 2, info.table_lookups)
        ELSE IF fc.err # NoError
        THEN out(fc.err, s._primary_key, fc.checked, 2, 1)
        ELSE IF pk.err # NoError
        THEN out(pk.err, pk._primary_key, fc.checked, 2, 1)
        ELSE out(sc.err, pk._primary_key, fc.checked \o sc.checked, 2, 1)

\* doc_similarity_threshold and the bounds of "not 0 <= t <= 1", in tenths
ThresholdMin == 0
ThresholdMax == 10

validate_threshold_exclusive(t) ==
    IF ~(ThresholdMin < t /\ t < ThresholdMax)
    THEN ValueError("doc_similarity_threshold must be between 0 and 1")
    ELSE NoError

validate_threshold(t) ==
    IF ~(ThresholdMin <= t /\ t <= ThresholdMax)
    THEN ValueError("doc_similarity_threshold must be between 0 and 1")
    ELSE NoError

NoTool == [exists |-> FALSE, doc_similarity_threshold |-> 0]
NoRetrieverSchema ==
    [set |-> FALSE, primary_key |-> NoneVal, text_column |-> "", doc_uri |-> ""]

FilterableColumnLists == { <<>>, <<"id">>, <<"extra", "id">> }
Thresholds == {ThresholdMin - 1, ThresholdMin, ThresholdMax, ThresholdMax + 1}

\* VectorSearchRetrieverTool(vector_search_schema=schema, filterable_columns=...,
\* doc_similarity_threshold=...): super().__init__ runs the two validators in the
\* order they are defined, the second only if the first returned; then __init__
\* registers the retriever schema.
Construct(filterable_columns, doc_similarity_threshold, env) ==
    LET v   == validate_index_and_columns(schema, filterable_columns, env)
        t   == validate_threshold(doc_similarity_threshold)
        err == IF v.err # NoError THEN v.err ELSE t
        s1  == [schema EXCEPT !._primary_key = v._primary_key]
    IN  /\ schema' = s1
        /\ IF err = NoError
           THEN /\ tool' = [exists |-> TRUE,
                            doc_similarity_threshold |-> doc_similarity_threshold]
                /\ retriever_schema' =
                        [set |-> TRUE, primary_key |-> primary_key(s1).value,
                         text_column |-> s1.chunk_text, doc_uri |-> s1.document_uri]
           ELSE UNCHANGED <<tool, retriever_schema>>
        /\ last' = [op |-> "construct",
                    filterable_columns |-> filterable_columns,
                    doc_similarity_threshold |-> doc_similarity_threshold,
                    env |-> env,
                    _primary_key_before |-> schema._primary_key,
                    err |-> err,
                    raised_in |-> IF v.err # NoError THEN "validate_index_and_columns"
                                  ELSE IF t # NoError THEN "validate_threshold" ELSE "",
                    checked |-> v.checked,
                    index_lookups |-> v.index_lookups,
                    table_lookups |-> v.table_lookups,
                    value |-> NoneVal]
        /\ UNCHANGED <<parseVars, convertVars, waitVars>>

NoEnv == [g1 |-> NotCalled, g2 |-> NotCalled, table_columns |-> {}]

\* reading vector_search_schema.primary_key
ReadPrimaryKey ==
    /\ last' = [op |-> "primary_key",
                filterable_columns |-> <<>>,
                doc_similarity_threshold |-> 0,
                env |-> NoEnv,
                _primary_key_before |-> schema._primary_key,
                err |-> primary_key(schema).err,
                raised_in |-> "",
                checked |-> <<>>,
                index_lookups |-> 0,
                table_lookups |-> 0,
                value |-> primary_key(schema).value]
    /\ UNCHANGED <<schema, tool, retriever_schema>>
    /\ UNCHANGED <<parseVars, convertVars, waitVars>>

NoCall == [op |-> "none",
           filterable_columns |-> <<>>,
           doc_similarity_threshold |-> 0,
           env |-> NoEnv,
           _primary_key_before |-> NoneVal,
           err |-> NoError,
           raised_in |-> "",
           checked |-> <<>>,
           index_lookups |-> 0,
           table_lookups |-> 0,
           value |-> NoneVal]

----------------------------------------------------------------------------
(* parse_filters *)

\* A JSON value of a filter: a scalar (string or number), a list of scalars, or
\* an object, whose properties are kept in their order as <<name, value>> pairs.
PyScalar(v) == [type |-> "scalar", list |-> <<v>>, dict |-> <<>>]
PyList(l)   == [type |-> "list", list |-> l, dict |-> <<>>]
PyDict(d)   == [type |-> "dict", list |-> <<>>, dict |-> d]

\* the values of the result: a scalar (a plain value or an operand), or {"OR": l}
Plain(v) == [type |-> "scalar", list |-> <<v>>]

BareList(l) == [type |-> "list", list |-> l]

Or(l) == [type |-> "OR", list |-> l]

FilterItem(field, value) == [field |-> field, filter |-> value]

EmptyDict == [k \in {} |-> Plain("")]

\* d[k] = v
SetItem(d, k, v) == [x \in DOMAIN d \cup {k} |-> IF x = k THEN v ELSE d[x]]

\* str.upper() on the operator names used here
Upper(op) ==
    CASE op = "like" -> "LIKE"
      [] op = "Like" -> "LIKE"
      [] op = "not"  -> "NOT"
      [] op = "Not"  -> "NOT"
      [] OTHER       -> op

\* next(iter(value.items())) on a non-empty dict; the mistaken variant takes
\* the last property
last_property(d) == d[Len(d)]

first_property(d) == d[1]

\* the body of the loop: vs_filters after filter_item, or the exception
parse_filter_item(vs_filters, filter_item) ==
    LET key   == filter_item.field
        value == filter_item.filter
    IN  IF value.type = "list"
        THEN [err |-> NoError, vs_filters |-> SetItem(vs_filters, key, Or(value.list))]
        ELSE IF value.type = "dict"
        THEN IF value.dict = <<>>
             THEN \* next(iter({}.items()))
                  [err |-> Propagated("StopIteration"), vs_filters |-> vs_filters]
             ELSE LET operator == first_property(value.dict)[1]
                      operand  == first_property(value.dict)[2]
                  IN  [err |-> NoError,
                       vs_filters |->
                         IF operator \in {"<", "<=", ">", ">="}
                         THEN SetItem(vs_filters, key \o " " \o operator, Plain(operand))
                         ELSE IF Upper(operator) = "LIKE"
                         THEN SetItem(vs_filters, key \o " LIKE", Plain(operand))
                         ELSE IF Upper(operator) = "NOT"
                         THEN SetItem(vs_filters, key \o " !=", Plain(operand))
                         ELSE vs_filters]
        ELSE [err |-> NoError, vs_filters |-> SetItem(vs_filters, key, Plain(value.list[1]))]

\* "vs_filters = {}": the dictionary a call starts from; previous is the
\* dictionary the call before returned
reused_vs_filters(previous) == previous

new_vs_filters(previous) == EmptyDict

\* parse_filters(filters), previous being the result of the call before: the
\* exception or the dictionary returned, and the list as the call leaves it
parse_filters(previous, input) ==
    LET RECURSIVE loop(_, _)
        loop(i, vs_filters) ==
            IF i > Len(input)
            THEN [err |-> NoError, vs_filters |-> vs_filters, filters |-> input]
            ELSE LET r == parse_filter_item(vs_filters, input[i])
                 IN  IF r.err # NoError
                     THEN [err |-> r.err, vs_filters |-> EmptyDict, filters |-> input]
                     ELSE loop(i + 1, r.vs_filters)
    IN  loop(1, new_vs_filters(previous))

NotParsed == [called |-> FALSE, input |-> <<>>, err |-> NoError, vs_filters |-> EmptyDict]
NotRemembered ==
    [called |-> FALSE, input |-> <<>>, err |-> NoError, vs_filters |-> EmptyDict,
     other_since |-> FALSE]

\* tool.parse_filters(input)
ParseFilters(input) ==
    LET r == parse_filters(parsed.vs_filters, input)
    IN  /\ tool.exists
        /\ filters' = r.filters
        /\ parsed' = [called |-> TRUE, input |-> input, err |-> r.err,
                      vs_filters |-> r.vs_filters]
        /\ UNCHANGED <<toolVars, convertVars, waitVars>>

\* the inputs: lists of at most MaxFilters items
MaxFilters == 2

FilterFields == {"a", "b"}

Operators == {"<", "<=", ">", ">=", "LIKE", "NOT", "like", "Not", "=="}

FilterValues ==
    { PyScalar("1"), PyScalar("x"), PyList(<<>>), PyList(<<"1", "x">>) }
    \cup { PyDict(<< <<op, "1">> >>) : op \in Operators }
    \cup { PyDict(<< <<"NOT", "x">> >>),
           PyDict(<< <<"<", "1">>, <<">", "x">> >>),
           PyDict(<< <<"==", "1">>, <<"<", "x">> >>),
           PyDict(<<>>) }

FilterItems == { FilterItem(f, v) : f \in FilterFields, v \in FilterValues }

ListsOf(S, n) == UNION { [1..k -> S] : k \in 0..n }

FilterLists == ListsOf(FilterItems, MaxFilters)

\* a tool as a successful construction leaves it
ToolReady ==
    /\ schema = [SchemaConfig("text", <<>>) EXCEPT !._primary_key = "id"]
    /\ tool = [exists |-> TRUE, doc_similarity_threshold |-> ThresholdMin]
    /\ retriever_schema = [set |-> TRUE, primary_key |-> "id", text_column |-> "text",
                           doc_uri |-> "uri"]
    /\ last = NoCall

----------------------------------------------------------------------------
(* The notebook: register, deploy, wait for the endpoint, grant permissions *)

EndpointStateReady == {"READY", "NOT_READY"}
EndpointStateConfigUpdate == {"IN_PROGRESS", "NOT_UPDATING", "UPDATE_FAILED", "UPDATE_CANCELED"}
EndpointStates == [ready : EndpointStateReady, config_update : EndpointStateConfigUpdate]

Unread == "unread"

\* the counter polls stops at MaxPolls; the loop does not
MaxPolls == 3

ModelVersions == {1, 2}

\* time.sleep(30), whatever the number of polls so far
SleepDoubling == 30 * (polls + 1)

SleepSeconds == 30

\* the first operand of the while condition: where the notebook goes next
while_ready_limited(value) ==
    IF polls >= MaxPolls THEN "print_review_app"
    ELSE IF value = "NOT_READY" THEN "sleep" ELSE "read_config_update"

while_ready(value) ==
    IF value = "NOT_READY" THEN "sleep" ELSE "read_config_update"

\* the second operand, evaluated only when the first is false
while_config_update(value) ==
    IF value = "IN_PROGRESS" THEN "sleep" ELSE "print_review_app"

Step(from, to, call) ==
    /\ pc = from
    /\ pc' = to
    /\ calls' = Append(calls, call)

\* mlflow.register_model(...)
RegisterModel ==
    /\ Step("register_model", "deploy", "register_model")
    /\ registered_version' \in ModelVersions
    /\ UNCHANGED <<deployed_version, endpoint, ready_read, config_update_read,
                   last_sleep, polls, good_seen>>
    /\ UNCHANGED <<toolVars, parseVars, convertVars>>

\* model_version=uc_registered_model_info.version; the mistaken variant
\* deploys the other version
other_version == 3 - registered_version

model_version == registered_version

\* agents.deploy(model_name=..., model_version=uc_registered_model_info.version)
Deploy ==
    /\ Step("deploy", "set_review_instructions", "deploy")
    /\ deployed_version' = model_version
    /\ UNCHANGED <<registered_version, endpoint, ready_read, config_update_read,
                   last_sleep, polls, good_seen>>
    /\ UNCHANGED <<toolVars, parseVars, convertVars>>

\* agents.set_review_instructions(...)
SetReviewInstructions ==
    /\ Step("set_review_instructions", "read_ready", "set_review_instructions")
    /\ UNCHANGED <<registered_version, deployed_version, endpoint, ready_read,
                   config_update_read, last_sleep, polls, good_seen>>
    /\ UNCHANGED <<toolVars, parseVars, convertVars>>

\* w.serving_endpoints.get(...).state.ready == EndpointStateReady.NOT_READY
ReadReady ==
    /\ pc = "read_ready"
    /\ ready_read' = endpoint.ready
    /\ config_update_read' = Unread
    /\ pc' = while_ready(endpoint.ready)
    /\ good_seen' = (endpoint.ready # "NOT_READY" /\ endpoint.config_update # "IN_PROGRESS")
    /\ UNCHANGED <<calls, registered_version, deployed_version, endpoint, last_sleep, polls>>
    /\ UNCHANGED <<toolVars, parseVars, convertVars>>

\* w.serving_endpoints.get(...).state.config_update == EndpointStateConfigUpdate.IN_PROGRESS
ReadConfigUpdate ==
    /\ pc = "read_config_update"
    /\ config_update_read' = endpoint.config_update
    /\ pc' = while_config_update(endpoint.config_update)
    /\ UNCHANGED <<calls, registered_version, deployed_version, endpoint, ready_read,
                   last_sleep, polls, good_seen>>
    /\ UNCHANGED <<toolVars, parseVars, convertVars>>

\* the body of the loop: print("."); time.sleep(30)
Sleep ==
    /\ pc = "sleep"
    /\ last_sleep' = SleepSeconds
    /\ polls' = IF polls < MaxPolls THEN polls + 1 ELSE polls
    /\ pc' = "read_ready"
    /\ UNCHANGED <<calls, registered_version, deployed_version, endpoint, ready_read,
                   config_update_read, good_seen>>
    /\ UNCHANGED <<toolVars, parseVars, convertVars>>

\* print(f"Review App: {deployment_info.review_app_url}")
PrintReviewApp ==
    /\ Step("print_review_app", "set_permissions", "print_review_app")
    /\ UNCHANGED <<registered_version, deployed_version, endpoint, ready_read,
                   config_update_read, last_sleep, polls, good_seen>>
    /\ UNCHANGED <<toolVars, parseVars, convertVars>>

\* agents.set_permissions(...)
SetPermissions ==
    /\ Step("set_permissions", "done", "set_permissions")
    /\ UNCHANGED <<registered_version, deployed_version, endpoint, ready_read,
                   config_update_read, last_sleep, polls, good_seen>>
    /\ UNCHANGED <<toolVars, parseVars, convertVars>>

\* the platform moves the endpoint to another state, at any time
EndpointChanges ==
    /\ endpoint' \in EndpointStates \ {endpoint}
    /\ good_seen' = IF pc = "read_config_update"
                    THEN good_seen \/ (/\ endpoint'.ready # "NOT_READY"
                                       /\ endpoint'.config_update # "IN_PROGRESS")
                    ELSE good_seen
    /\ UNCHANGED <<pc, calls, registered_version, deployed_version, ready_read,
                   config_update_read, last_sleep, polls>>
    /\ UNCHANGED <<toolVars, parseVars, convertVars>>

----------------------------------------------------------------------------
(* Specifications.  Each one exercises one part of the program and keeps the
   variables of the other parts at their idle values. *)

WaitIdle ==
    /\ pc = "register_model"
    /\ calls = <<>>
    /\ registered_version = 0
    /\ deployed_version = 0
    /\ endpoint = [ready |-> "NOT_READY", config_update |-> "IN_PROGRESS"]
    /\ ready_read = Unread
    /\ config_update_read = Unread
    /\ last_sleep = 0
    /\ polls = 0
    /\ good_seen = FALSE

ConvertIdle ==
    /\ vs_results = [manifest |-> [columns |-> <<>>],
                     result |-> [row_count |-> 0, data_array |-> <<>>]]
    /\ converted = [called |-> FALSE, err |-> NoError, docs |-> <<>>]

ParseIdle ==
    /\ filters = <<>>
    /\ parsed = NotParsed
    /\ remembered = NotRemembered

\* one call on each list
ParseInit ==
    /\ ToolReady
    /\ ConvertIdle
    /\ WaitIdle
    /\ filters \in FilterLists
    /\ parsed = NotParsed
    /\ remembered = NotRemembered

ParseNext == ParseFilters(filters) /\ UNCHANGED remembered

ParseSpec == ParseInit /\ [][ParseNext]_vars

\* sequences of calls: the lists of at most MaxCallFilters items of CallItems
MaxCallFilters == 2

CallItems ==
    { FilterItem("a", PyScalar("1")), FilterItem("a", PyList(<<"1", "x">>)),
      FilterItem("b", PyDict(<< <<"<", "1">> >>)) }

CallLists == ListsOf(CallItems, MaxCallFilters)

\* a call, after which the call before it may become the remembered one
Call(input) ==
    /\ ParseFilters(input)
    /\ \/ /\ parsed.called
          /\ remembered' = [called |-> TRUE, input |-> parsed.input, err |-> parsed.err,
                            vs_filters |-> parsed.vs_filters,
                            other_since |-> input # parsed.input]
       \/ remembered' = [remembered EXCEPT
                            !.other_since = @ \/ (remembered.called /\ input # remembered.input)]

CallsInit == ToolReady /\ ParseIdle /\ ConvertIdle /\ WaitIdle

CallsNext == \E input \in CallLists : Call(input)

CallsSpec == CallsInit /\ [][CallsNext]_vars

----------------------------------------------------------------------------
(* convert_vector_search_to_documents *)

\* A row of data_array is modelled as [fields, score]: fields is item[0:-1] and
\* score is item[-1].  A metadata value is a string or a number.
Str(v) == [kind |-> "str", str |-> v, num |-> 0]
Num(n) == [kind |-> "num", str |-> "", num |-> n]

EmptyMetadata == [k \in {} |-> Str("")]

DelItem(d, k) == [x \in DOMAIN d \ {k} |-> d[x]]

KeyError(k) == [type |-> "KeyError", msg |-> "", column |-> k, context |-> ""]

NoDocument == [page_content |-> Str(""), metadata |-> EmptyMetadata, id |-> Str("")]

\* metadata after "for i, field in enumerate(item[0:-1])"
row_metadata(column_names, item) ==
    LET RECURSIVE fill(_, _)
        fill(i, metadata) ==
            IF i > Len(item.fields) THEN metadata
            ELSE fill(i + 1, SetItem(metadata, column_names[i], Str(item.fields[i])))
    IN  fill(1, SetItem(EmptyMetadata, "similarity_score", Num(item.score)))

\* the body of "if score >= vector_search_threshold": the document, or the
\* KeyError of a lookup in metadata
row_document(s, column_names, item) ==
    LET m0 == row_metadata(column_names, item)
        m1 == DelItem(m0, s.chunk_text)
        m2 == DelItem(m1, primary_key(s).value)
    IN  IF s.chunk_text \notin DOMAIN m0
        THEN [err |-> KeyError(s.chunk_text), doc |-> NoDocument]
        ELSE IF primary_key(s).value \notin DOMAIN m1
        THEN [err |-> KeyError(primary_key(s).value), doc |-> NoDocument]
        ELSE [err |-> NoError,
              doc |-> [page_content |-> m0[s.chunk_text], metadata |-> m2,
                       id |-> m1[primary_key(s).value]]]

convert_vector_search_to_documents(s, results, vector_search_threshold) ==
    LET column_names == results.manifest.columns
        rows == results.result.data_array
        RECURSIVE loop(_, _)
        loop(i, docs) ==
            IF i > Len(rows) THEN [err |-> NoError, docs |-> docs]
            ELSE IF rows[i].score >= vector_search_threshold
            THEN LET r == row_document(s, column_names, rows[i])
                 IN  IF r.err # NoError THEN [err |-> r.err, docs |-> <<>>]
                     ELSE loop(i + 1, Append(docs, r.doc))
            ELSE loop(i + 1, docs)
    IN  IF results.result.row_count > 0 THEN loop(1, <<>>)
        ELSE [err |-> NoError, docs |-> <<>>]

\* the columns __call__ asks for: list(set(cols))
all_columns(s) ==
    {primary_key(s).value, s.chunk_text, s.document_uri}
    \cup { s.additional_metadata_columns[i] : i \in 1..Len(s.additional_metadata_columns) }

\* the conversion as __call__ runs it, with the tool's threshold
Convert ==
    LET r == convert_vector_search_to_documents(schema, vs_results,
                                                tool.doc_similarity_threshold)
    IN  /\ tool.exists
        /\ converted' = [called |-> TRUE, err |-> r.err, docs |-> r.docs]
        /\ UNCHANGED <<toolVars, parseVars, vs_results, waitVars>>

\* the responses: at most MaxRows rows of the requested columns, in any order
\* of the columns, each row followed by its score
MaxRows == 2

FieldValues == {"p", "q"}
Scores == {4, 5}

Orders(S) == { o \in [1..Cardinality(S) -> S] : \A c \in S : \E i \in DOMAIN o : o[i] = c }

Rows(n) == [fields : [1..n -> FieldValues], score : Scores]

Responses(S) ==
    { [manifest |-> [columns |-> Append(o, "score")],
       result |-> [row_count |-> Len(d), data_array |-> d]] :
        o \in Orders(S), d \in ListsOf(Rows(Cardinality(S)), MaxRows) }

\* the schemas of constructed tools: chunk_text and the primary key may be
\* the same column, and a column of the table may be named similarity_score
ReadySchemas ==
    { [SchemaConfig("text", <<>>) EXCEPT !._primary_key = "id"],
      [SchemaConfig("id", <<"text">>) EXCEPT !._primary_key = "id"],
      [SchemaConfig("text", <<"similarity_score">>) EXCEPT !._primary_key = "id"] }

ConvertInit ==
    /\ schema \in ReadySchemas
    /\ tool \in { [exists |-> TRUE, doc_similarity_threshold |-> t] : t \in {ThresholdMin, 5} }
    /\ retriever_schema = [set |-> TRUE, primary_key |-> schema._primary_key,
                           text_column |-> schema.chunk_text, doc_uri |-> schema.document_uri]
    /\ last = NoCall
    /\ ParseIdle
    /\ vs_results \in Responses(all_columns(schema))
    /\ converted = [called |-> FALSE, err |-> NoError, docs |-> <<>>]
    /\ WaitIdle

ConvertNext == Convert

ConvertSpec == ConvertInit /\ [][ConvertNext]_vars

\* the notebook starts with no tool involved and the endpoint in any state
NotebookInit ==
    /\ schema = SchemaConfig("text", <<>>)
    /\ tool = NoTool
    /\ retriever_schema = NoRetrieverSchema
    /\ last = NoCall
    /\ ParseIdle
    /\ ConvertIdle
    /\ pc = "register_model"
    /\ calls = <<>>
    /\ registered_version = 0
    /\ deployed_version = 0
    /\ endpoint \in EndpointStates
    /\ ready_read = Unread
    /\ config_update_read = Unread
    /\ last_sleep = 0
    /\ polls = 0
    /\ good_seen = FALSE

\* the notebook's own steps
NotebookStep ==
    \/ RegisterModel
    \/ Deploy
    \/ SetReviewInstructions
    \/ ReadReady
    \/ ReadConfigUpdate
    \/ Sleep
    \/ PrintReviewApp
    \/ SetPermissions

NotebookNext == NotebookStep \/ EndpointChanges

\* the notebook runs on: whichever statement it is at is executed
NotebookSpec == NotebookInit /\ [][NotebookNext]_vars /\ WF_vars(NotebookStep)

ToolInit ==
    /\ schema \in SchemaConfigs
    /\ tool = NoTool
    /\ retriever_schema = NoRetrieverSchema
    /\ last = NoCall
    /\ ParseIdle
    /\ ConvertIdle
    /\ WaitIdle

ToolNext ==
    \/ \E f \in FilterableColumnLists, t \in Thresholds, env \in Envs : Construct(f, t, env)
    \/ ReadPrimaryKey

Spec == ToolInit /\ [][ToolNext]_vars

----------------------------------------------------------------------------
(* Properties of construction *)

Constructed == last.op = "construct"

\* the last construction got as far as comparing columns with the table
ReachedColumns == Constructed /\ last.table_lookups = 1

\* the configured columns in the order of the claim: filterable_columns,
\* chunk_text, document_uri, additional_metadata_columns
FilterablePairs ==
    [i \in 1..Len(last.filterable_columns) |->
        <<last.filterable_columns[i], "filterable_columns">>]

ConfiguredOrder ==
    FilterablePairs
    \o << <<schema.chunk_text, "chunk_text">>, <<schema.document_uri, "document_uri">> >>
    \o [i \in 1..Len(schema.additional_metadata_columns) |->
            <<schema.additional_metadata_columns[i], "additional_metadata_columns">>]

MissingAt == { i \in 1..Len(ConfiguredOrder) :
                 ConfiguredOrder[i][1] \notin last.env.table_columns }

FirstMissing == CHOOSE i \in MissingAt : \A j \in MissingAt : i <= j

NoPrimaryKeyAnywhere ==
    last._primary_key_before = NoneVal /\ last.env.g2.primary_key = NoneVal

\* C4, as stated: the columns are checked in the order filterable_columns,
\* chunk_text, document_uri, additional_metadata_columns; the ValueError raised
\* names the first column of that order missing from the source table, nothing
\* after it is checked, and construction succeeds only if no column is missing.
C4_FirstMissingColumnRaises ==
    ReachedColumns =>
        /\ MissingAt # {} =>
            /\ last.err = ColumnError(ConfiguredOrder[FirstMissing][1],
                                      ConfiguredOrder[FirstMissing][2])
            /\ last.checked = SubSeq(ConfiguredOrder, 1, FirstMissing)
        /\ last.err = NoError => MissingAt = {}

\* C4, amended: as C4, except that between the filterable_columns and
\* chunk_text the primary key step may raise ValueError "Could not find primary
\* key" (no key on the schema, none reported by the index); then only the
\* filterable_columns have been checked and no missing schema column is named.
C4_FirstMissingColumnOrPrimaryKey ==
    ReachedColumns =>
        /\ (MissingAt # {} /\ (FirstMissing <= Len(FilterablePairs) \/ ~NoPrimaryKeyAnywhere)) =>
            /\ last.err = ColumnError(ConfiguredOrder[FirstMissing][1],
                                      ConfiguredOrder[FirstMissing][2])
            /\ last.checked = SubSeq(ConfiguredOrder, 1, FirstMissing)
        /\ (NoPrimaryKeyAnywhere /\ \A i \in MissingAt : i > Len(FilterablePairs)) =>
            /\ last.err = ValueError("Could not find primary key in index")
            /\ last.checked = FilterablePairs
        /\ (MissingAt = {} /\ ~NoPrimaryKeyAnywhere) =>
            /\ last.checked = ConfiguredOrder
            /\ last.raised_in # "validate_index_and_columns"
        /\ last.err = NoError => MissingAt = {}

\* a construction that passed a non-empty filterable_columns and chunk_text and
\* failed at document_uri, with a later column missing too
C4_Witness ==
    /\ ReachedColumns
    /\ last.err = ColumnError("uri", "document_uri")
    /\ Len(last.checked) = 3
    /\ Cardinality(MissingAt) > 1

\* C5: a construction that raises in validate_index_and_columns produces no
\* tool, registers no retriever schema and leaves the caller's schema object as
\* it was.
C5_FailedConstructionChangesNothing ==
    [][ (last'.op = "construct" /\ last'.raised_in = "validate_index_and_columns")
            => (tool' = tool /\ retriever_schema' = retriever_schema /\ schema' = schema)
      ]_vars

ThresholdInRange(t) == ThresholdMin <= t /\ t <= ThresholdMax

C9_IndexValidatedFirst ==
    Constructed =>
        /\ "ResourceDoesNotExist" \in {last.env.g1.status, last.env.g2.status} =>
            /\ last.err = ValueError("does not exist")
            /\ last.table_lookups = 0
            /\ last.checked = <<>>
        /\ (last.env.g2.status = "ok" /\ last.env.g2.index_type # "DELTA_SYNC") =>
            /\ last.err = ValueError("Unsupported index type")
            /\ last.table_lookups = 0
            /\ last.checked = <<>>
        /\ "OtherError" \in {last.env.g1.status, last.env.g2.status} =>
            last.err = Propagated("OtherError")

----------------------------------------------------------------------------
(* Properties of parse_filters *)

\* the table of C1: the shapes it covers, and the entry each gives
TableOperators == {"<", "<=", ">", ">=", "LIKE", "NOT"}

InTable(item) ==
    \/ item.filter.type \in {"list", "scalar"}
    \/ /\ item.filter.type = "dict"
       /\ Len(item.filter.dict) = 1
       /\ item.filter.dict[1][1] \in TableOperators

TableKey(item) ==
    IF item.filter.type \in {"list", "scalar"} THEN item.field
    ELSE CASE item.filter.dict[1][1] = "<"    -> item.field \o " <"
           [] item.filter.dict[1][1] = "<="   -> item.field \o " <="
           [] item.filter.dict[1][1] = ">"    -> item.field \o " >"
           [] item.filter.dict[1][1] = ">="   -> item.field \o " >="
           [] item.filter.dict[1][1] = "LIKE" -> item.field \o " LIKE"
           [] item.filter.dict[1][1] = "NOT"  -> item.field \o " !="

TableValue(item) ==
    IF item.filter.type = "list" THEN [type |-> "OR", list |-> item.filter.list]
    ELSE IF item.filter.type = "scalar" THEN [type |-> "scalar", list |-> item.filter.list]
    ELSE [type |-> "scalar", list |-> <<item.filter.dict[1][2]>>]

CoveredByTable(input) ==
    /\ \A i \in 1..Len(input) : InTable(input[i])
    /\ \A i, j \in 1..Len(input) : i # j => TableKey(input[i]) # TableKey(input[j])

\* C1: for a list whose items have the shapes of the table and pairwise
\* distinct output keys, parse_filters returns exactly the table's entries:
\* list -> {"OR": list}, scalar -> scalar, {op: x} -> "field op": x for the four
\* comparisons and LIKE, {NOT: x} -> "field !=": x.
C1_ParseFiltersTable ==
    (parsed.called /\ CoveredByTable(parsed.input)) =>
        /\ parsed.err = NoError
        /\ DOMAIN parsed.vs_filters =
                { TableKey(parsed.input[i]) : i \in 1..Len(parsed.input) }
        /\ \A i \in 1..Len(parsed.input) :
                parsed.vs_filters[TableKey(parsed.input[i])] = TableValue(parsed.input[i])

\* a call on a list value and a NOT object, on two fields
C1_Witness ==
    /\ parsed.called
    /\ CoveredByTable(parsed.input)
    /\ Len(parsed.input) = 2
    /\ parsed.input[1].filter.type = "list"
    /\ parsed.input[2].filter.type = "dict"
    /\ parsed.input[2].filter.dict[1][1] = "NOT"
    /\ Cardinality(DOMAIN parsed.vs_filters) = 2

\* C2: a call's result depends on its input only (an earlier call with the
\* same input gave the same result, whatever was called in between), and the
\* call leaves the list passed in and the tool's configuration as they were.
C2_PureAndStateless ==
    /\ [](parsed.called => filters = parsed.input)
    /\ []((remembered.called /\ parsed.called /\ remembered.input = parsed.input) =>
            (parsed.err = remembered.err /\ parsed.vs_filters = remembered.vs_filters))
    /\ [][toolVars' = toolVars]_vars

\* the same non-empty list parsed twice, with another list parsed in between
C2_Witness ==
    /\ remembered.called
    /\ parsed.called
    /\ remembered.input = parsed.input
    /\ remembered.other_since
    /\ Len(parsed.input) = MaxCallFilters
    /\ parsed.vs_filters # EmptyDict

\* the operators that give an entry, LIKE and NOT in any spelling of the inputs
Comparisons == {"<", "<=", ">", ">="}
LikeSpellings == {"LIKE", "like", "Like"}
NotSpellings == {"NOT", "not", "Not"}

\* the item gives an entry: a list, a scalar, or an object whose first
\* operator is a comparison, LIKE or NOT
Contributes(item) ==
    \/ item.filter.type \in {"list", "scalar"}
    \/ /\ item.filter.type = "dict"
       /\ item.filter.dict # <<>>
       /\ item.filter.dict[1][1] \in Comparisons \cup LikeSpellings \cup NotSpellings

\* the key of the entry of an item that gives one
EntryKey(item) ==
    IF item.filter.type \in {"list", "scalar"} THEN item.field
    ELSE IF item.filter.dict[1][1] \in Comparisons
    THEN item.field \o " " \o item.filter.dict[1][1]
    ELSE IF item.filter.dict[1][1] \in LikeSpellings THEN item.field \o " LIKE"
    ELSE item.field \o " !="

\* every object filter of the list has at least one property
NoEmptyObject(input) ==
    \A i \in 1..Len(input) : input[i].filter.type = "dict" => input[i].filter.dict # <<>>

\* C13: on a list whose object filters have at least one property,
\* parse_filters does not raise; every entry of the result is the entry of an
\* input item, so there is at most one entry per item; the entry under a key
\* is that of the last item with that key; an object whose first operator is
\* none of <, <=, >, >=, LIKE, NOT (LIKE and NOT in any case) gives no entry;
\* and only the first property of an object decides its entry.
C13_EntriesComeFromItems ==
    (parsed.called /\ NoEmptyObject(parsed.input)) =>
        /\ parsed.err = NoError
        /\ Cardinality(DOMAIN parsed.vs_filters) <= Len(parsed.input)
        /\ DOMAIN parsed.vs_filters =
                { EntryKey(parsed.input[i]) :
                    i \in { j \in 1..Len(parsed.input) : Contributes(parsed.input[j]) } }
        /\ \A i \in 1..Len(parsed.input) :
                (/\ Contributes(parsed.input[i])
                 /\ \A j \in (i + 1)..Len(parsed.input) :
                        Contributes(parsed.input[j]) =>
                            EntryKey(parsed.input[j]) # EntryKey(parsed.input[i]))
                => parsed.vs_filters[EntryKey(parsed.input[i])] = TableValue(parsed.input[i])

\* two NOT filters on one field, in different spellings and with different
\* operands: one entry, holding the later operand
C13_Witness ==
    /\ parsed.called
    /\ Len(parsed.input) = 2
    /\ parsed.input[1] = FilterItem("a", PyDict(<< <<"NOT", "x">> >>))
    /\ parsed.input[2] = FilterItem("a", PyDict(<< <<"Not", "1">> >>))
    /\ DOMAIN parsed.vs_filters = {"a !="}
    /\ parsed.vs_filters["a !="] = Plain("1")

----------------------------------------------------------------------------
(* Properties of convert_vector_search_to_documents *)

\* the rows of the response whose score passes the tool's threshold, in order
PassingRows ==
    SelectSeq(vs_results.result.data_array,
              LAMBDA row : row.score >= tool.doc_similarity_threshold)

RowValue(row, column) ==
    LET i == CHOOSE i \in 1..Len(row.fields) : vs_results.manifest.columns[i] = column
    IN  Str(row.fields[i])

\* C3: the conversion returns one document for each row whose score is at
\* least the threshold, in the order of the rows, none for the other rows, and
\* the empty list when row_count is 0.
C3_FilteredProjection ==
    converted.called =>
        /\ converted.err = NoError
        /\ Len(converted.docs) = Len(PassingRows)
        /\ \A k \in 1..Len(PassingRows) :
            /\ converted.docs[k].page_content = RowValue(PassingRows[k], schema.chunk_text)
            /\ converted.docs[k].id = RowValue(PassingRows[k], schema._primary_key)
        /\ vs_results.result.row_count = 0 => converted.docs = <<>>

\* the columns of the response that hold the fields of a row
ReturnedColumns ==
    { vs_results.manifest.columns[i] : i \in 1..(Len(vs_results.manifest.columns) - 1) }

\* the metadata of the document of a row: the score under similarity_score and
\* every returned column but chunk_text and the primary key
ExpectedMetadata(row) ==
    [c \in {"similarity_score"}
            \cup (ReturnedColumns \ {schema.chunk_text, schema._primary_key}) |->
        IF c = "similarity_score" THEN Num(row.score) ELSE RowValue(row, c)]

\* C11: for every accepted configuration the conversion does not fail, and the
\* document of each row whose score passes the threshold has the row's
\* chunk_text value as page_content, the row's primary-key value as id, and as
\* metadata similarity_score = the row's score plus every other returned
\* column, without the chunk_text column and the primary-key column.
C11_DocumentFields ==
    converted.called =>
        /\ converted.err = NoError
        /\ Len(converted.docs) = Len(PassingRows)
        /\ \A k \in 1..Len(PassingRows) :
            /\ converted.docs[k].page_content = RowValue(PassingRows[k], schema.chunk_text)
            /\ converted.docs[k].id = RowValue(PassingRows[k], schema._primary_key)
            /\ converted.docs[k].metadata = ExpectedMetadata(PassingRows[k])

----------------------------------------------------------------------------
(* Properties of the wait loop *)

\* the notebook is past the loop
Exited == pc \in {"print_review_app", "set_permissions", "done"}

\* the endpoint is ready and no config update is in progress
Good == endpoint.ready # "NOT_READY" /\ endpoint.config_update # "IN_PROGRESS"

\* C6: a check that reads ready = NOT_READY, or else config_update =
\* IN_PROGRESS, is followed by a sleep of 30 seconds and another check, however
\* many polls there have been; the loop is left only by a check that read
\* ready other than NOT_READY and config_update other than IN_PROGRESS.
C6_FixedSleepAndRecheck ==
    /\ [][(pc = "read_ready" /\ pc' # pc) =>
            pc' = IF ready_read' = "NOT_READY" THEN "sleep" ELSE "read_config_update"]_vars
    /\ [][(pc = "read_config_update" /\ pc' # pc) =>
            pc' = IF config_update_read' = "IN_PROGRESS" THEN "sleep"
                  ELSE "print_review_app"]_vars
    /\ [][(pc = "sleep" /\ pc' # pc) => (pc' = "read_ready" /\ last_sleep' = 30)]_vars
    /\ [](last_sleep \in {0, 30})
    /\ [](Exited => /\ ready_read \in EndpointStateReady \ {"NOT_READY"}
                    /\ config_update_read \in EndpointStateConfigUpdate \ {"IN_PROGRESS"})

\* the loop is left after as many sleeps as the model counts
C6_Witness ==
    /\ pc = "print_review_app"
    /\ polls = MaxPolls
    /\ last_sleep = 30

\* C7, as stated: the loop exits if the endpoint eventually becomes and stays
\* ready with no update in progress, and never exits otherwise.
C7_ExitsIffEventuallyStaysReady ==
    /\ <>[]Good => <>Exited
    /\ <>Exited => <>[]Good

\* C7, amended: the loop exits if the endpoint eventually becomes and stays
\* ready with no update in progress; it never exits on an endpoint that stays
\* NOT_READY forever, nor on one whose config update stays IN_PROGRESS forever.
C7_ExitsIfStaysReadyNeverIfStaysNotReady ==
    /\ <>[]Good => <>Exited
    /\ [](endpoint.ready = "NOT_READY") => []~Exited
    /\ [](endpoint.config_update = "IN_PROGRESS") => []~Exited

\* the loop was left after polling, and the endpoint is not ready any more
C7_Witness ==
    /\ Exited
    /\ polls > 0
    /\ endpoint.ready = "NOT_READY"

\* the platform calls of the deployment cells, in the order of the notebook
DeploymentOrder ==
    <<"register_model", "deploy", "set_review_instructions", "print_review_app",
      "set_permissions">>

InWaitLoop == pc \in {"read_ready", "read_config_update", "sleep"}

\* C14: the deployment steps run in the notebook's order, none skipped or
\* repeated: register_model, then agents.deploy with the version registered,
\* then set_review_instructions, all before the wait loop starts, and
\* set_permissions only after the loop has exited on a check that read the
\* endpoint as not NOT_READY and not IN_PROGRESS.
C14_StepsInFixedOrder ==
    /\ Len(calls) <= Len(DeploymentOrder)
    /\ calls = SubSeq(DeploymentOrder, 1, Len(calls))
    /\ Len(calls) >= 1 => registered_version \in ModelVersions
    /\ Len(calls) >= 2 => deployed_version = registered_version
    /\ Len(calls) < 2 => deployed_version = 0
    /\ Len(calls) < 3 => (~InWaitLoop /\ ready_read = Unread /\ polls = 0)
    /\ InWaitLoop => Len(calls) = 3
    /\ Len(calls) > 3 =>
            /\ Exited
            /\ ready_read \in EndpointStateReady \ {"NOT_READY"}
            /\ config_update_read \in EndpointStateConfigUpdate \ {"IN_PROGRESS"}

\* all cells have run, version 2 was registered, and the loop slept before
\* it exited
C14_Witness ==
    /\ pc = "done"
    /\ calls = DeploymentOrder
    /\ registered_version = 2
    /\ deployed_version = 2
    /\ polls > 0

\* C12: whenever the loop has exited, the endpoint was at one moment of the
\* loop's last check (from its read of ready to its read of config_update) both
\* not NOT_READY and not IN_PROGRESS, also when the endpoint changes between
\* the two reads.
C12_ExitOnConsistentObservation == Exited => good_seen

====
